---------------------------- MODULE Spec2Model ----------------------------
(***************************************************************************)
(* bevy_pixel_art_shader: the depth-aware compositor (src/src/compositor.rs)*)
(* and the shading parameter record (src/src/lib.rs).                       *)
(*                                                                         *)
(* The main world holds the camera entities and their components.  Every   *)
(* frame the render world extracts a snapshot (Extract), prepares the      *)
(* per-view pipeline and uniform data (Prepare) and then runs the Core3d   *)
(* render graph of every camera, in which CompositorNode::run sits between *)
(* Node3d::PostProcessing and Node3d::Fxaa.  The main world keeps running  *)
(* while a frame renders (pipelined rendering); only Extract sees both     *)
(* worlds.                                                                 *)
(*                                                                         *)
(* Numbers that are f32 in the source are kept in hundredths               *)
(* (0.1 is 10, 10.0 is 1000).                                              *)
(***************************************************************************)
EXTENDS Integers, Sequences, FiniteSets, TLC

\* ------------------------------------------------------------------------
\* Entities, handles and values
\* ------------------------------------------------------------------------

\* Camera entities.  camB is drawn first (order -1), camA second (order 0).
Entities == {"camA", "camB"}

CameraOrder == <<"camB", "camA">>

\* Cameras the scene attaches a PixelArtCompositor to, and cameras it marks
\* LowResPixelArtCamera, in the two-camera scene of the specification.
FullResCams == {"camA"}

LowResCams == {"camB"}

\* Handle<Image> values.
Images == {"img1", "img2"}

\* RenderTarget::Image of the low-res camera: the image it renders into.
\* The other handle is an image no marked camera renders into.
RenderTargetImage == [e \in LowResCams |-> "img1"]

\* depth_bias values of the tuning interface: 0 .. MaxBias.
MaxBias == 1

Biases == 0..MaxBias

NoComp == [absent |-> TRUE]

NoEntity == "none"

\* TextureFormat of the two specializations.
TEXTURE_FORMAT_HDR == "Rgba16Float"

BevyDefaultFormat == "Rgba8UnormSrgb"

\* The nodes of the Core3d graph that the plugin's edges mention, and the
\* base 3-D pass they follow.
Nodes == {"MainPass", "PostProcessing", "Tonemapping", "Compositor", "Fxaa"}

VARIABLES
    \* main world
    pixelArtCompositor,     \* entity -> NoComp or [lowres_image, depth_bias]
    lowResPixelArtCamera,   \* entity -> BOOLEAN: the marker component
    depthPrepass,           \* entity -> BOOLEAN: the DepthPrepass component
    cameraHdr,              \* entity -> BOOLEAN: the view's HDR setting
    \* session
    depthSamplingSupported, \* DEPTH_TEXTURE_SAMPLING_SUPPORTED
    \* render world components
    extractedCompositor,    \* entity -> NoComp or [lowres_image]
    compositorUniform,      \* entity -> NoComp or [depth_bias]
    renderLowRes,           \* entity -> BOOLEAN: marker in the render world
    extractedView,          \* entity -> [hdr, depth_prepass]: the camera snapshot
    viewTarget,             \* entity -> NoComp or [hdr, main]
    viewPrepassTextures,    \* entity -> NoComp or [depth: BOOLEAN]
    compositorPipelineId,   \* entity -> 0 (absent) or a pipeline id
    dynamicUniformIndex,    \* entity -> 0 (absent) or an index in the buffer
    \* render world resources
    specializedPipelines,   \* CompositorKey.hdr -> 0 (not cached) or id
    pipelineCache,          \* id -> [format, ready]
    componentUniforms,      \* [buffer: Seq(depth_bias), bound: BOOLEAN]
    gpuImages,              \* the handles RenderAssets<GpuImage> holds
    \* schedule
    pc,                     \* "extract" | "prepare" | "render"
    viewIdx,                \* position in CameraOrder while rendering
    nodesDone,              \* nodes of the current view's graph that ran
    \* what the frame did
    runLog,                 \* entity -> NoComp or the record of run()
    atExtract,              \* main-world PixelArtCompositor at extraction
    \* one composite pass on the GPU: the bound textures and the attachment
    gpuPass,
    \* a PixelArtShaderParams value and how it came about
    params,
    paramsOrigin,
    \* the uniform buffer of the material extension, as last written
    paramsBuffer,
    \* the colour a pixel-art fragment produced, with the steps applied to it
    shaded,
    \* the surfaces the low-res camera sees, per texel
    lowResScene,
    \* the demo's two camera transforms and its frame schedule
    windowTransform,        \* Transform of the WindowCamera
    pixelArtTransform,      \* Transform of the PixelArtCamera
    transformChanged,       \* Changed<Transform> as sync_pixel_art_camera sees it
    mainPc,                 \* systems of the frame that still have to run
    rendered,               \* the transforms the last frame was rendered with
    \* the application the plugin is installed in
    app

mainVars == <<pixelArtCompositor, lowResPixelArtCamera, depthPrepass, cameraHdr>>

componentVars == <<extractedCompositor, compositorUniform, renderLowRes,
                   extractedView, viewTarget, viewPrepassTextures, compositorPipelineId,
                   dynamicUniformIndex>>

resourceVars == <<specializedPipelines, pipelineCache, componentUniforms, gpuImages>>

scheduleVars == <<pc, viewIdx, nodesDone>>

stageVars == <<paramsBuffer, shaded, lowResScene>>

syncVars == <<windowTransform, pixelArtTransform, transformChanged, mainPc,
              rendered>>

hostVars == <<syncVars, app>>

shadeVars == <<gpuPass, params, paramsOrigin, stageVars, hostVars>>

vars == <<mainVars, depthSamplingSupported, componentVars, resourceVars,
          scheduleVars, runLog, atExtract, shadeVars>>

\* ------------------------------------------------------------------------
\* Main world: the scene-authoring and tuning interface
\* ------------------------------------------------------------------------

\* #[require(DepthPrepass)] on PixelArtCompositor: inserting the component
\* inserts DepthPrepass on the same entity when it is missing.
RequiredWithCompositorMissing(dp) == dp

RequiredWithCompositor(dp) == TRUE

\* commands.entity(e).insert(PixelArtCompositor { lowres_image, depth_bias })
AttachCompositor(e, img, b) ==
    /\ pixelArtCompositor' = [pixelArtCompositor EXCEPT
                                ![e] = [lowres_image |-> img, depth_bias |-> b]]
    /\ depthPrepass' = [depthPrepass EXCEPT ![e] = RequiredWithCompositor(@)]
    /\ UNCHANGED <<lowResPixelArtCamera, cameraHdr>>

\* The tuning interface writes the public field depth_bias in place.
SetDepthBias(e, b) ==
    /\ pixelArtCompositor[e] # NoComp
    /\ pixelArtCompositor[e].depth_bias # b
    /\ pixelArtCompositor' = [pixelArtCompositor EXCEPT ![e].depth_bias = b]
    /\ UNCHANGED <<lowResPixelArtCamera, depthPrepass, cameraHdr>>

\* commands.entity(e).remove::<PixelArtCompositor>(): required components stay.
RemoveCompositor(e) ==
    /\ pixelArtCompositor[e] # NoComp
    /\ pixelArtCompositor' = [pixelArtCompositor EXCEPT ![e] = NoComp]
    /\ UNCHANGED <<lowResPixelArtCamera, depthPrepass, cameraHdr>>

\* LowResPixelArtCamera derives Component with no #[require]: inserting the
\* marker inserts nothing else.
AttachLowResCamera(e) ==
    /\ ~lowResPixelArtCamera[e]
    /\ lowResPixelArtCamera' = [lowResPixelArtCamera EXCEPT ![e] = TRUE]
    /\ UNCHANGED <<pixelArtCompositor, depthPrepass, cameraHdr>>

\* The scene inserts or removes DepthPrepass itself.
InsertDepthPrepass(e) ==
    /\ ~depthPrepass[e]
    /\ depthPrepass' = [depthPrepass EXCEPT ![e] = TRUE]
    /\ UNCHANGED <<pixelArtCompositor, lowResPixelArtCamera, cameraHdr>>

RemoveDepthPrepass(e) ==
    /\ depthPrepass[e]
    /\ depthPrepass' = [depthPrepass EXCEPT ![e] = FALSE]
    /\ UNCHANGED <<pixelArtCompositor, lowResPixelArtCamera, cameraHdr>>

\* The view's HDR setting changes.
SetHdr(e, h) ==
    /\ cameraHdr[e] # h
    /\ cameraHdr' = [cameraHdr EXCEPT ![e] = h]
    /\ UNCHANGED <<pixelArtCompositor, lowResPixelArtCamera, depthPrepass>>

\* ------------------------------------------------------------------------
\* Extraction (ExtractSchedule): the only step that reads the main world
\* ------------------------------------------------------------------------

\* CompositorUniform::extract_component
ExtractComponentDefault(compositor) == [depth_bias |-> 0]

ExtractComponent(compositor) == [depth_bias |-> compositor.depth_bias]

\* ExtractedCompositor { lowres_image: compositor.lowres_image.clone() }
ExtractedCompositorOf(compositor) == [lowres_image |-> compositor.lowres_image]

\* extract_compositor: returns before any insert when depth textures cannot
\* be sampled; otherwise inserts ExtractedCompositor on every entity with a
\* PixelArtCompositor and the marker on every marked entity.  Components the
\* render world already holds stay until something removes them.
ExtractGuardIgnored(supported) == TRUE

ExtractGuard(supported) == supported

extract_compositor ==
    IF ~ExtractGuard(depthSamplingSupported)
    THEN UNCHANGED <<extractedCompositor, renderLowRes>>
    ELSE /\ extractedCompositor' =
              [e \in Entities |->
                 IF pixelArtCompositor[e] # NoComp
                 THEN ExtractedCompositorOf(pixelArtCompositor[e])
                 ELSE extractedCompositor[e]]
         /\ renderLowRes' =
              [e \in Entities |-> renderLowRes[e] \/ lowResPixelArtCamera[e]]

\* ExtractComponentPlugin::<CompositorUniform>: one CompositorUniform per
\* entity that carries PixelArtCompositor.
extract_uniform_components ==
    compositorUniform' =
        [e \in Entities |->
           IF pixelArtCompositor[e] # NoComp
           THEN ExtractComponent(pixelArtCompositor[e])
           ELSE compositorUniform[e]]

\* The engine's camera extraction: the view's HDR setting and DepthPrepass.
extract_cameras ==
    extractedView' =
        [e \in Entities |-> [hdr |-> cameraHdr[e], depth_prepass |-> depthPrepass[e]]]

EmptyLog == [e \in Entities |-> NoComp]

Extract ==
    /\ pc = "extract"
    /\ extract_compositor
    /\ extract_uniform_components
    /\ extract_cameras
    /\ atExtract' = pixelArtCompositor
    /\ pc' = "prepare"
    /\ UNCHANGED <<mainVars, depthSamplingSupported, runLog, viewTarget,
                   viewPrepassTextures, compositorPipelineId,
                   dynamicUniformIndex, resourceVars, viewIdx, nodesDone,
                   shadeVars>>

\* ------------------------------------------------------------------------
\* Preparation (Render schedule, before the graph runs)
\* ------------------------------------------------------------------------

\* CompositorPipeline::specialize: the color target's format follows key.hdr.
specialize(hdr) ==
    [format |-> IF hdr THEN TEXTURE_FORMAT_HDR ELSE BevyDefaultFormat]

\* SpecializedRenderPipelines::specialize: the id cached for the key, or a
\* newly queued pipeline built by specialize(key).  st = [cache, pipelines].
SpecializedId(st, hdr) ==
    IF st.cache[hdr] # 0 THEN st.cache[hdr] ELSE Len(st.pipelines) + 1

SpecializeInto(st, hdr) ==
    IF st.cache[hdr] # 0
    THEN st
    ELSE [cache |-> [st.cache EXCEPT ![hdr] = Len(st.pipelines) + 1],
          pipelines |-> Append(st.pipelines,
                               [format |-> specialize(hdr).format, ready |-> FALSE])]

\* The views prepare_compositor_pipelines visits: those with a ViewTarget
\* and an ExtractedCompositor.
PreparedViews(targets) ==
    {e \in Entities : targets[e] # NoComp /\ extractedCompositor[e] # NoComp}

RECURSIVE SpecializeViews(_, _, _)
SpecializeViews(order, targets, st) ==
    IF order = <<>>
    THEN st
    ELSE LET e == Head(order)
         IN  SpecializeViews(Tail(order), targets,
                 IF e \in PreparedViews(targets)
                 THEN SpecializeInto(st, targets[e].hdr)
                 ELSE st)

\* The key prepare_compositor_pipelines specializes a view with.
PipelineKey(e, targets) == targets[e].hdr

\* CompositorPipelineId after prepare_compositor_pipelines: re-resolved for
\* every prepared view, left as it was on every other entity.
PipelineIdKept(e, targets, st) ==
    IF compositorPipelineId[e] # 0
    THEN compositorPipelineId[e]
    ELSE st.cache[PipelineKey(e, targets)]

PipelineIdFor(e, targets, st) == st.cache[PipelineKey(e, targets)]

\* UniformComponentPlugin::<CompositorUniform>: writes one buffer entry per
\* entity with a CompositorUniform and gives the entity its index.
RECURSIVE UniformEntities(_)
UniformEntities(order) ==
    IF order = <<>>
    THEN <<>>
    ELSE IF compositorUniform[Head(order)] # NoComp
         THEN <<Head(order)>> \o UniformEntities(Tail(order))
         ELSE UniformEntities(Tail(order))

IndexOf(seq, x) == CHOOSE i \in 1..Len(seq) : seq[i] = x

InSeq(seq, x) == \E i \in 1..Len(seq) : seq[i] = x

Prepare ==
    /\ pc = "prepare"
    \* prepare_view_targets: a fresh ViewTarget per camera
    /\ viewTarget' = [e \in Entities |-> [hdr |-> extractedView[e].hdr, main |-> 0]]
    \* prepass textures: a depth texture for every camera with DepthPrepass;
    \* a camera without it has no depth texture, and has the component at
    \* all only if another prepass is enabled
    /\ viewPrepassTextures' \in
          {t \in [Entities -> {NoComp, [depth |-> TRUE], [depth |-> FALSE]}] :
              \A e \in Entities :
                  extractedView[e].depth_prepass <=> (t[e] = [depth |-> TRUE])}
    \* prepare_compositor_pipelines, then the pipeline cache compiles some of
    \* the queued pipelines
    /\ LET st == SpecializeViews(CameraOrder, viewTarget',
                     [cache |-> specializedPipelines, pipelines |-> pipelineCache])
       IN  /\ specializedPipelines' = st.cache
           /\ compositorPipelineId' =
                 [e \in Entities |->
                    IF e \in PreparedViews(viewTarget')
                    THEN PipelineIdFor(e, viewTarget', st)
                    ELSE compositorPipelineId[e]]
           /\ \E done \in SUBSET (1..Len(st.pipelines)) :
                 pipelineCache' =
                    [i \in 1..Len(st.pipelines) |->
                       [st.pipelines[i] EXCEPT !.ready = @ \/ i \in done]]
    \* prepare_uniform_components
    /\ LET ents == UniformEntities(CameraOrder)
       IN  IF ents = <<>>
           THEN UNCHANGED <<componentUniforms, dynamicUniformIndex>>
           ELSE /\ \E bound \in BOOLEAN :
                     componentUniforms' =
                        [buffer |-> [i \in 1..Len(ents) |->
                                        compositorUniform[ents[i]].depth_bias],
                         bound |-> bound]
                /\ dynamicUniformIndex' =
                     [e \in Entities |->
                        IF InSeq(ents, e) THEN IndexOf(ents, e)
                        ELSE dynamicUniformIndex[e]]
    \* RenderAssets<GpuImage>: every image, or all but one still loading
    /\ gpuImages' \in {Images} \cup {Images \ {i} : i \in Images}
    /\ pc' = "render"
    /\ viewIdx' = 1
    /\ nodesDone' = {}
    /\ UNCHANGED <<mainVars, depthSamplingSupported, extractedCompositor,
                   compositorUniform, renderLowRes, extractedView, runLog,
                   atExtract,
                   shadeVars>>

\* ------------------------------------------------------------------------
\* The Core3d render graph
\* ------------------------------------------------------------------------

\* The engine's own edges between the nodes the plugin names.
CoreEdges ==
    {<<"MainPass", "PostProcessing">>, <<"PostProcessing", "Tonemapping">>,
     <<"Tonemapping", "Fxaa">>}

\* add_render_graph_edges(Core3d, (PostProcessing, CompositorLabel, Fxaa))
CompositorEdgesAfterFxaa ==
    {<<"PostProcessing", "Fxaa">>, <<"Fxaa", "Compositor">>}

CompositorEdges ==
    {<<"PostProcessing", "Compositor">>, <<"Compositor", "Fxaa">>}

GraphEdges == CoreEdges \cup CompositorEdges

\* A node may run once every node with an edge into it has run.
Runnable(n, done) ==
    /\ n \notin done
    /\ \A edge \in GraphEdges : edge[2] = n => edge[1] \in done

\* ------------------------------------------------------------------------
\* CompositorNode::run
\* ------------------------------------------------------------------------

\* view_query.get_manual(world, view_entity)
ViewQueryMatches(v) ==
    /\ viewTarget[v] # NoComp
    /\ viewPrepassTextures[v] # NoComp
    /\ extractedCompositor[v] # NoComp
    /\ compositorPipelineId[v] # 0
    /\ dynamicUniformIndex[v] # 0

\* pipeline_cache.get_render_pipeline(id): Some once the pipeline is compiled
GetRenderPipelineQueued(id) == id \in 1..Len(pipelineCache)

GetRenderPipeline(id) == id \in 1..Len(pipelineCache) /\ pipelineCache[id].ready

\* lowres_query: the entities with the marker and ViewPrepassTextures;
\* iter_manual(world).next() takes whichever of them the query yields first.
LowResQuery ==
    {e \in Entities : renderLowRes[e] /\ viewPrepassTextures[e] # NoComp}

LowResChoices == IF LowResQuery = {} THEN {NoEntity} ELSE LowResQuery

\* The guards of run, in the order of the source; "draw" when all pass.
RunOutcomeUnguarded(v, l) ==
    IF ~ViewQueryMatches(v) THEN "no_view"
    ELSE IF ~GetRenderPipeline(compositorPipelineId[v]) THEN "no_pipeline"
    ELSE IF l = NoEntity THEN "no_lowres_camera"
    ELSE "draw"

RunOutcome(v, l) ==
    IF ~ViewQueryMatches(v) THEN "no_view"
    ELSE IF ~GetRenderPipeline(compositorPipelineId[v]) THEN "no_pipeline"
    ELSE IF ~viewPrepassTextures[v].depth THEN "no_fullres_depth"
    ELSE IF l = NoEntity THEN "no_lowres_camera"
    ELSE IF ~viewPrepassTextures[l].depth THEN "no_lowres_depth"
    ELSE IF extractedCompositor[v].lowres_image \notin gpuImages THEN "no_lowres_image"
    ELSE IF ~componentUniforms.bound THEN "no_uniform_binding"
    ELSE "draw"

\* The layout CompositorPipeline::from_world declares, slot i is element
\* i + 1: what each binding is and what the shader reads it as.
BindGroupLayoutEntriesColorsFirst ==
    << [ty |-> "texture_2d",       role |-> "fullres color"],
       [ty |-> "texture_2d",       role |-> "lowres color"],
       [ty |-> "texture_depth_2d", role |-> "fullres depth"],
       [ty |-> "texture_depth_2d", role |-> "lowres depth"],
       [ty |-> "sampler",          role |-> "nearest sampler"],
       [ty |-> "uniform_buffer",   role |-> "depth_bias uniform"] >>

BindGroupLayoutEntries ==
    << [ty |-> "texture_2d",       role |-> "fullres color"],
       [ty |-> "texture_depth_2d", role |-> "fullres depth"],
       [ty |-> "texture_2d",       role |-> "lowres color"],
       [ty |-> "texture_depth_2d", role |-> "lowres depth"],
       [ty |-> "sampler",          role |-> "nearest sampler"],
       [ty |-> "uniform_buffer",   role |-> "depth_bias uniform"] >>

\* The binding type and the role of a resource run hands to the bind group
\* of the view v: the view's main texture and prepass depth are the full-res
\* pair, a GpuImage and any other prepass depth the low-res pair.
IntoBinding(v, resource) ==
    CASE resource.kind = "color" ->
            [ty |-> "texture_2d",
             role |-> IF resource.view = v THEN "fullres color" ELSE "other color"]
      [] resource.kind = "image" ->
            [ty |-> "texture_2d", role |-> "lowres color"]
      [] resource.kind = "depth" ->
            [ty |-> "texture_depth_2d",
             role |-> IF resource.view = v THEN "fullres depth" ELSE "lowres depth"]
      [] resource.kind = "sampler" ->
            [ty |-> "sampler",
             role |-> IF resource.filter = "Nearest" THEN "nearest sampler"
                      ELSE "filtering sampler"]
      [] resource.kind = "uniform" ->
            [ty |-> "uniform_buffer", role |-> "depth_bias uniform"]

\* BindGroupEntries::sequential((...)): slot i is element i + 1.
BindGroupEntriesSameDepth(source, fullres_depth, lowres_image, lowres_depth, sampler, uniforms) ==
    <<source, fullres_depth, lowres_image, fullres_depth, sampler, uniforms>>

BindGroupEntries(source, fullres_depth, lowres_image, lowres_depth, sampler, uniforms) ==
    <<source, fullres_depth, lowres_image, lowres_depth, sampler, uniforms>>

\* view_target.post_process_write(): the current main texture becomes the
\* source, the other one the destination, and they trade places.
PostProcessWrite(target) ==
    [source |-> target.main, destination |-> 1 - target.main]

\* What run did: the result it returned and the pass it encoded, if any.
Skipped(outcome) ==
    [result |-> "Ok", outcome |-> outcome, passes |-> 0, draws |-> 0]

\* The dynamic offset of set_bind_group: the view's own uniform index.
DynamicOffsetFirst(v) == 1

DynamicOffset(v) == dynamicUniformIndex[v]

Drawn(v, l) ==
    LET post_process == PostProcessWrite(viewTarget[v])
    IN  [result |-> "Ok", outcome |-> "draw", passes |-> 1, draws |-> 1,
         pipeline |-> compositorPipelineId[v],
         bind_group |->
            BindGroupEntries(
                [kind |-> "color", view |-> v, main |-> post_process.source],
                [kind |-> "depth", view |-> v],
                [kind |-> "image", handle |-> extractedCompositor[v].lowres_image],
                [kind |-> "depth", view |-> l],
                [kind |-> "sampler", filter |-> "Nearest"],
                [kind |-> "uniform", buffer |-> componentUniforms.buffer]),
         offset |-> DynamicOffset(v),
         attachment |-> [view |-> v, main |-> post_process.destination]]

\* run for the view v: the guards, then the swap and the pass.
CompositorNodeRunSwapFirst(v) ==
    \E l \in LowResChoices :
        LET outcome == RunOutcome(v, l)
        IN  /\ runLog' = [runLog EXCEPT ![v] = IF outcome = "draw"
                                               THEN Drawn(v, l)
                                               ELSE Skipped(outcome)]
            /\ viewTarget' = [viewTarget EXCEPT
                                ![v] = IF @ = NoComp THEN @
                                       ELSE [@ EXCEPT !.main = 1 - @]]

CompositorNodeRun(v) ==
    \E l \in LowResChoices :
        LET outcome == RunOutcome(v, l)
        IN  IF outcome = "draw"
            THEN /\ runLog' = [runLog EXCEPT ![v] = Drawn(v, l)]
                 /\ viewTarget' = [viewTarget EXCEPT ![v].main = 1 - @]
            ELSE /\ runLog' = [runLog EXCEPT ![v] = Skipped(outcome)]
                 /\ UNCHANGED viewTarget

\* The camera driver runs the graph of the current camera; of its nodes
\* only the compositor touches the state kept here.
RenderView ==
    /\ pc = "render"
    /\ viewIdx <= Len(CameraOrder)
    /\ nodesDone = {}
    /\ CompositorNodeRun(CameraOrder[viewIdx])
    /\ viewIdx' = viewIdx + 1
    /\ UNCHANGED <<mainVars, depthSamplingSupported, extractedCompositor,
                   compositorUniform, renderLowRes, extractedView,
                   viewPrepassTextures, compositorPipelineId,
                   dynamicUniformIndex, resourceVars, pc, nodesDone, atExtract,
                   shadeVars>>

\* The same, one node at a time, in any order the graph's edges allow.
RunNode(n) ==
    /\ pc = "render"
    /\ viewIdx <= Len(CameraOrder)
    /\ Runnable(n, nodesDone)
    /\ nodesDone' = nodesDone \cup {n}
    /\ IF n = "Compositor"
       THEN CompositorNodeRun(CameraOrder[viewIdx])
       ELSE UNCHANGED <<runLog, viewTarget>>
    /\ UNCHANGED <<mainVars, depthSamplingSupported, extractedCompositor,
                   compositorUniform, renderLowRes, extractedView,
                   viewPrepassTextures, compositorPipelineId,
                   dynamicUniformIndex, resourceVars, pc, viewIdx, atExtract,
                   shadeVars>>

NextView ==
    /\ pc = "render"
    /\ viewIdx <= Len(CameraOrder)
    /\ nodesDone = Nodes
    /\ viewIdx' = viewIdx + 1
    /\ nodesDone' = {}
    /\ UNCHANGED <<mainVars, depthSamplingSupported, componentVars,
                   resourceVars, pc, runLog, atExtract,
                   shadeVars>>

\* Every camera is drawn: the frame is presented and its per-frame data
\* (view targets, prepass textures, the camera snapshot, the record of what
\* was drawn) is released; the next frame's steps build them anew.
EndFrame ==
    /\ pc = "render"
    /\ viewIdx > Len(CameraOrder)
    /\ pc' = "extract"
    /\ viewIdx' = 1
    /\ extractedView' = [e \in Entities |-> [hdr |-> FALSE, depth_prepass |-> FALSE]]
    /\ viewTarget' = [e \in Entities |-> NoComp]
    /\ viewPrepassTextures' = [e \in Entities |-> NoComp]
    /\ gpuImages' = {}
    /\ componentUniforms' = [componentUniforms EXCEPT !.bound = FALSE]
    /\ runLog' = EmptyLog
    /\ atExtract' = [e \in Entities |-> NoComp]
    /\ UNCHANGED <<mainVars, depthSamplingSupported, extractedCompositor,
                   compositorUniform, renderLowRes, compositorPipelineId,
                   dynamicUniformIndex, specializedPipelines, pipelineCache,
                   nodesDone,
                   shadeVars>>

\* ------------------------------------------------------------------------
\* The two-camera scene
\* ------------------------------------------------------------------------

\* Both worlds right after the plugin is installed: no component yet.
WorldsInit ==
    /\ pixelArtCompositor = [e \in Entities |-> NoComp]
    /\ lowResPixelArtCamera = [e \in Entities |-> FALSE]
    /\ depthPrepass = [e \in Entities |-> FALSE]
    /\ cameraHdr = [e \in Entities |-> FALSE]
    /\ extractedCompositor = [e \in Entities |-> NoComp]
    /\ compositorUniform = [e \in Entities |-> NoComp]
    /\ renderLowRes = [e \in Entities |-> FALSE]
    /\ extractedView = [e \in Entities |-> [hdr |-> FALSE, depth_prepass |-> FALSE]]
    /\ viewTarget = [e \in Entities |-> NoComp]
    /\ viewPrepassTextures = [e \in Entities |-> NoComp]
    /\ compositorPipelineId = [e \in Entities |-> 0]
    /\ dynamicUniformIndex = [e \in Entities |-> 0]
    /\ specializedPipelines = [h \in BOOLEAN |-> 0]
    /\ pipelineCache = <<>>
    /\ componentUniforms = [buffer |-> <<>>, bound |-> FALSE]
    /\ gpuImages = {}
    /\ pc = "extract"
    /\ viewIdx = 1
    /\ nodesDone = {}
    /\ runLog = EmptyLog
    /\ atExtract = [e \in Entities |-> NoComp]

\* The demo's cameras are spawned with the same transform; nothing has
\* run yet.
\* ------------------------------------------------------------------------
\* Installing PixelArtCompositorPlugin
\* ------------------------------------------------------------------------

\* What build registers in the main app, whatever sub-apps exist.
MainSide ==
    {"compositor.wgsl", "PixelArtCompositor", "LowResPixelArtCamera",
     "ExtractComponentPlugin<CompositorUniform>",
     "UniformComponentPlugin<CompositorUniform>"}

\* What build registers in the render sub-app.
RenderSide ==
    {"SpecializedRenderPipelines<CompositorPipeline>", "extract_compositor",
     "prepare_compositor_pipelines", "CompositorNode", "CompositorEdges"}

\* An application before the plugin is added, with or without RenderApp.
NewApp(render_app) ==
    [render_app |-> render_app, phase |-> "new", main |-> {}, render |-> {}]

\* build: get_sub_app_mut(RenderApp) is None without a render sub-app, and
\* build returns after the main-side registrations.
PluginBuild(a) ==
    [a EXCEPT !.phase = "built",
              !.main = MainSide,
              !.render = IF a.render_app THEN RenderSide ELSE {}]

\* finish: sub_app_mut(RenderApp) panics when the sub-app does not exist.
PluginFinish(a) ==
    IF a.render_app
    THEN [a EXCEPT !.phase = "finished", !.render = @ \cup {"CompositorPipeline"}]
    ELSE [a EXCEPT !.phase = "panicked"]

InstalledApp == PluginFinish(PluginBuild(NewApp(TRUE)))

CamerasSpawned ==
    /\ windowTransform = 0
    /\ pixelArtTransform = 0
    /\ transformChanged = TRUE
    /\ mainPc = {"pan_orbit_camera", "sync_pixel_art_camera"}
    /\ rendered = NoComp

NoSync ==
    /\ CamerasSpawned
    /\ app = InstalledApp

NoDemo ==
    /\ paramsBuffer = NoComp
    /\ shaded = NoComp
    /\ lowResScene = NoComp
    /\ NoSync

NoShading ==
    /\ gpuPass = NoComp
    /\ params = NoComp
    /\ paramsOrigin = "none"
    /\ NoDemo

\* DEPTH_TEXTURE_SAMPLING_SUPPORTED is fixed by the platform of the build.
Init ==
    /\ WorldsInit
    /\ depthSamplingSupported \in BOOLEAN
    /\ NoShading

renderVars == <<depthSamplingSupported, componentVars, resourceVars,
                scheduleVars, runLog, atExtract, shadeVars>>

\* A write of the simulation update, which runs to completion before the
\* extraction.
Update(write) ==
    /\ pc = "extract"
    /\ write
    /\ UNCHANGED renderVars

\* With pipelined rendering the next update already runs while the frame is
\* rendered.  No render step reads the main world, so a write at any point
\* after the extraction leaves the same frame as one made right after it:
\* the writes to the compositor configuration are taken there.
UpdateWhileRendering(write) ==
    /\ pc = "prepare"
    /\ write
    /\ UNCHANGED renderVars

Next ==
    \/ \E e \in FullResCams, img \in Images, b \in Biases :
          Update(AttachCompositor(e, img, b))
    \/ \E e \in FullResCams, b \in Biases : Update(SetDepthBias(e, b))
    \/ \E e \in FullResCams : Update(RemoveCompositor(e))
    \/ \E e \in FullResCams : Update(RemoveDepthPrepass(e))
    \/ \E e \in FullResCams, h \in BOOLEAN : Update(SetHdr(e, h))
    \/ \E e \in LowResCams : Update(AttachLowResCamera(e))
    \/ \E e \in LowResCams : Update(InsertDepthPrepass(e))
    \/ \E e \in FullResCams, img \in Images, b \in Biases :
          UpdateWhileRendering(AttachCompositor(e, img, b))
    \/ \E e \in FullResCams, b \in Biases : UpdateWhileRendering(SetDepthBias(e, b))
    \/ \E e \in FullResCams : UpdateWhileRendering(RemoveCompositor(e))
    \/ Extract
    \/ Prepare
    \/ RenderView
    \/ EndFrame

Spec == Init /\ [][Next]_vars

\* ------------------------------------------------------------------------
\* The frame with the render graph run node by node
\* ------------------------------------------------------------------------

NextGraph ==
    \/ \E e \in FullResCams, img \in Images : Update(AttachCompositor(e, img, 0))
    \/ \E e \in LowResCams : Update(AttachLowResCamera(e))
    \/ \E e \in LowResCams : Update(InsertDepthPrepass(e))
    \/ Extract
    \/ Prepare
    \/ \E n \in Nodes : RunNode(n)
    \/ NextView
    \/ EndFrame

SpecGraph == Init /\ [][NextGraph]_vars

\* ------------------------------------------------------------------------
\* Several compositor-enabled cameras: every camera may carry a
\* PixelArtCompositor of its own
\* ------------------------------------------------------------------------

NextViews ==
    \/ \E e \in Entities, b \in Biases : Update(AttachCompositor(e, "img1", b))
    \/ \E e \in Entities, b \in Biases : Update(SetDepthBias(e, b))
    \/ \E e \in LowResCams : Update(AttachLowResCamera(e))
    \/ Extract
    \/ Prepare
    \/ RenderView
    \/ EndFrame

SpecViews == Init /\ [][NextViews]_vars

\* ------------------------------------------------------------------------
\* From App::new() to the running application
\* ------------------------------------------------------------------------

installRest == <<mainVars, depthSamplingSupported, componentVars, resourceVars,
                 scheduleVars, runLog, atExtract, gpuPass, params, paramsOrigin,
                 stageVars, syncVars>>

\* app.add_plugins(PixelArtCompositorPlugin)
build ==
    /\ app.phase = "new"
    /\ app' = PluginBuild(app)
    /\ UNCHANGED installRest

\* App::finish() calls finish of every plugin once all are built.
finish ==
    /\ app.phase = "built"
    /\ app' = PluginFinish(app)
    /\ UNCHANGED installRest

\* The schedules run only once the application is set up.
Installed(step) ==
    /\ app.phase = "finished"
    /\ step

InitInstall ==
    /\ WorldsInit
    /\ depthSamplingSupported \in BOOLEAN
    /\ gpuPass = NoComp
    /\ params = NoComp
    /\ paramsOrigin = "none"
    /\ paramsBuffer = NoComp
    /\ shaded = NoComp
    /\ lowResScene = NoComp
    /\ CamerasSpawned
    /\ \E render_app \in BOOLEAN : app = NewApp(render_app)

NextInstall ==
    \/ build
    \/ finish
    \/ \E e \in FullResCams, img \in Images :
          Installed(Update(AttachCompositor(e, img, 0)))
    \/ \E e \in LowResCams : Installed(Update(AttachLowResCamera(e)))
    \/ \E e \in LowResCams : Installed(Update(InsertDepthPrepass(e)))
    \/ Installed(Extract)
    \/ Installed(Prepare)
    \/ Installed(RenderView)
    \/ Installed(EndFrame)

SpecInstall == InitInstall /\ [][NextInstall]_vars

\* ------------------------------------------------------------------------
\* Scene authoring alone: components attached to any camera
\* ------------------------------------------------------------------------

NextScene ==
    \/ \E e \in Entities, img \in Images, b \in Biases :
          Update(AttachCompositor(e, img, b))
    \/ \E e \in Entities, b \in Biases : Update(SetDepthBias(e, b))
    \/ \E e \in Entities : Update(RemoveCompositor(e))
    \/ \E e \in Entities : Update(AttachLowResCamera(e))
    \/ \E e \in Entities, h \in BOOLEAN : Update(SetHdr(e, h))

SpecScene == Init /\ [][NextScene]_vars

\* ------------------------------------------------------------------------
\* One composite pass: the fullscreen triangle shaded by compositor.wgsl
\* ------------------------------------------------------------------------

\* Texture sizes and depth values of the pass: a full-res target FullWidth
\* pixels wide, a low-res target LowWidth texels wide, depths 0..MaxDepth
\* (0 nearest).
FullWidth == 3

LowWidth == 2

MaxDepth == 1

Depths == 0..MaxDepth

\* Alpha in hundredths: transparent, half, opaque.
Alphas == {0, 50, 100}

\* Every pixel has a colour of its own, so that the source of an output
\* pixel can be told.
FullColor(p) == [layer |-> "fullres", px |-> p]

LowColor(q) == [layer |-> "lowres", px |-> q]

\* The nearest sampler at the centre of full-res pixel p: the low-res texel
\* that covers it.
NearestTexel(p) == (((2 * p - 1) * LowWidth) \div (2 * FullWidth)) + 1

\* The low-res depth the comparison uses: depth_bias moves it towards the
\* camera.
AdjustedLowDepth(lowres_depth, depth_bias) == lowres_depth - depth_bias

\* The fragment stage of the compositor, reading the bind group by slot:
\* 0 full-res colour, 1 full-res depth, 2 low-res colour, 3 low-res depth,
\* 4 sampler, 5 the uniform at the dynamic offset.
fragment(bind_group, offset, p) ==
    LET fullres_color == bind_group[1][p]
        fullres_depth == bind_group[2][p]
        lowres_color == bind_group[3][NearestTexel(p)]
        lowres_depth == bind_group[4][NearestTexel(p)]
        depth_bias == bind_group[6][offset].depth_bias
    IN  IF /\ AdjustedLowDepth(lowres_depth, depth_bias) <= fullres_depth
           /\ lowres_color.a # 0
        THEN lowres_color.rgb
        ELSE fullres_color

\* The textures and the uniform a pass finds bound.
PassInput(fd, la, ld, b) ==
    [fullres_color |-> [p \in 1..FullWidth |-> FullColor(p)],
     fullres_depth |-> fd,
     lowres_color |-> [q \in 1..LowWidth |-> [rgb |-> LowColor(q), a |-> la[q]]],
     lowres_depth |-> ld,
     uniforms |-> <<[depth_bias |-> b]>>,
     offset |-> 1,
     out |-> NoComp]

\* render_pass.draw(0..3, 0..1) with the bind group of run: the triangle
\* covers the attachment, every pixel is written once.
CompositePass ==
    /\ gpuPass # NoComp
    /\ gpuPass.out = NoComp
    /\ LET bind_group ==
              BindGroupEntries(gpuPass.fullres_color, gpuPass.fullres_depth,
                               gpuPass.lowres_color, gpuPass.lowres_depth,
                               [kind |-> "sampler", filter |-> "Nearest"],
                               gpuPass.uniforms)
       IN  gpuPass' = [gpuPass EXCEPT
                         !.out = [p \in 1..FullWidth |->
                                     fragment(bind_group, gpuPass.offset, p)]]
    /\ UNCHANGED <<mainVars, depthSamplingSupported, componentVars,
                   resourceVars, scheduleVars, runLog, atExtract, params,
                   paramsOrigin, stageVars, hostVars>>

InitComposite ==
    /\ WorldsInit
    /\ depthSamplingSupported = TRUE
    /\ \E fd \in [1..FullWidth -> Depths], la \in [1..LowWidth -> Alphas],
          ld \in [1..LowWidth -> Depths], b \in Biases :
            gpuPass = PassInput(fd, la, ld, b)
    /\ params = NoComp
    /\ paramsOrigin = "none"
    /\ NoDemo

NextComposite == CompositePass

SpecComposite == InitComposite /\ [][NextComposite]_vars

\* ------------------------------------------------------------------------
\* The low-res layer: pixel-art and holdout surfaces in front of one texel
\* ------------------------------------------------------------------------

MaterialKinds == {"pixel_art", "holdout"}

\* MaterialExtension::fragment_shader of the two extensions
fragment_shader_shared(material) == "pixel_art.wgsl"

fragment_shader(material) ==
    IF material = "holdout" THEN "holdout.wgsl" ELSE "pixel_art.wgsl"

\* MaterialExtension::prepass_fragment_shader of the two extensions
prepass_fragment_shader(material) ==
    IF material = "holdout" THEN "holdout_prepass.wgsl" ELSE "pixel_art_prepass.wgsl"

\* The alpha a fragment stage emits, whatever its inputs: the holdout
\* stages emit 0, the pixel-art stages an opaque colour.
ShaderAlpha(shader) ==
    IF shader \in {"holdout.wgsl", "holdout_prepass.wgsl"} THEN 0 ELSE 100

\* The surfaces over one texel: at most one of each material.
TexelSurfaces ==
    {S \in SUBSET [material : MaterialKinds, depth : Depths] :
        \A s, t \in S : s.material = t.material => s = t}

\* The depth test keeps the nearest surface; of two at the same depth,
\* whichever the pass draws last.
Nearest(S) == {s \in S : \A t \in S : s.depth <= t.depth}

\* The colour target is cleared to alpha 0, the depth target to the far
\* plane.
ClearAlpha == 0

FarDepth == MaxDepth

\* The low-res camera renders the layer; the full-res camera sees a wall at
\* one depth.  The rasterizer writes the depth of the surface it keeps,
\* the surface's fragment stage the colour.
RenderLowResScene ==
    /\ lowResScene # NoComp
    /\ lowResScene.front = NoComp
    /\ gpuPass = NoComp
    /\ \E kept \in [1..LowWidth -> [material : MaterialKinds, depth : Depths]
                                  \cup {[material |-> "clear", depth |-> FarDepth]}] :
          /\ \A q \in 1..LowWidth :
                IF lowResScene.surfaces[q] = {}
                THEN kept[q].material = "clear"
                ELSE kept[q] \in Nearest(lowResScene.surfaces[q])
          /\ lowResScene' =
                [lowResScene EXCEPT
                   !.front = [q \in 1..LowWidth |-> kept[q].material],
                   !.prepass_alpha =
                      [q \in 1..LowWidth |->
                         IF kept[q].material = "clear" THEN ClearAlpha
                         ELSE ShaderAlpha(prepass_fragment_shader(kept[q].material))]]
          /\ \E wall \in Depths, b \in Biases :
                gpuPass' =
                   PassInput([p \in 1..FullWidth |-> wall],
                             [q \in 1..LowWidth |->
                                IF kept[q].material = "clear" THEN ClearAlpha
                                ELSE ShaderAlpha(fragment_shader(kept[q].material))],
                             [q \in 1..LowWidth |-> kept[q].depth],
                             b)
    /\ UNCHANGED <<mainVars, depthSamplingSupported, componentVars,
                   resourceVars, scheduleVars, runLog, atExtract, params,
                   paramsOrigin, paramsBuffer, shaded, hostVars>>

InitHoldout ==
    /\ WorldsInit
    /\ depthSamplingSupported = TRUE
    /\ gpuPass = NoComp
    /\ params = NoComp
    /\ paramsOrigin = "none"
    /\ paramsBuffer = NoComp
    /\ shaded = NoComp
    /\ \E surfaces \in [1..LowWidth -> TexelSurfaces] :
          lowResScene = [surfaces |-> surfaces, front |-> NoComp,
                         prepass_alpha |-> NoComp]
    /\ NoSync

NextHoldout ==
    \/ RenderLowResScene
    \/ CompositePass

SpecHoldout == InitHoldout /\ [][NextHoldout]_vars

\* ------------------------------------------------------------------------
\* PixelArtShaderParams
\* ------------------------------------------------------------------------

\* palette_colors: [Vec4; 64]
PaletteCapacity == 64

\* default_pixel_art_palette() returns (colors, 64)
DefaultPaletteCount == 64

\* The u32 values tried for palette_count: 0 .. MaxPaletteInput.
MaxPaletteInput == 66

PaletteCountInputs == 0..MaxPaletteInput

\* ------------------------------------------------------------------------
\* The palette
\* ------------------------------------------------------------------------

\* Vec4 components of the palette are in ten-thousandths: 1.0 is One.
One == 10000

Vec4Zero == <<0, 0, 0, 0>>

\* Color::srgb_u8(..).to_linear() on one channel: c / 255 through the sRGB
\* transfer function (x / 12.92 up to 0.04045, ((x + 0.055) / 1.055) ^ 2.4
\* above), rounded to ten-thousandths; entry c + 1 is the value of c.
SrgbU8ToLinear ==
    <<
      0, 3, 6, 9, 12, 15, 18, 21, 24, 27, 30, 33,
      37, 40, 44, 48, 52, 56, 60, 65, 70, 75, 80, 86,
      91, 97, 103, 110, 116, 123, 130, 137, 144, 152, 160, 168,
      176, 185, 194, 203, 212, 222, 232, 242, 252, 262, 273, 284,
      296, 307, 319, 331, 343, 356, 369, 382, 395, 409, 423, 437,
      452, 467, 482, 497, 513, 529, 545, 561, 578, 595, 612, 630,
      648, 666, 685, 704, 723, 742, 762, 782, 802, 823, 844, 865,
      887, 908, 931, 953, 976, 999, 1022, 1046, 1070, 1095, 1119, 1144,
      1170, 1195, 1221, 1248, 1274, 1301, 1329, 1356, 1384, 1413, 1441, 1470,
      1500, 1529, 1559, 1590, 1620, 1651, 1683, 1714, 1746, 1779, 1812, 1845,
      1878, 1912, 1946, 1981, 2016, 2051, 2086, 2122, 2159, 2195, 2232, 2270,
      2307, 2346, 2384, 2423, 2462, 2502, 2542, 2582, 2623, 2664, 2705, 2747,
      2789, 2831, 2874, 2918, 2961, 3005, 3050, 3095, 3140, 3185, 3231, 3278,
      3325, 3372, 3419, 3467, 3515, 3564, 3613, 3663, 3712, 3763, 3813, 3864,
      3916, 3968, 4020, 4072, 4125, 4179, 4233, 4287, 4342, 4397, 4452, 4508,
      4564, 4621, 4678, 4735, 4793, 4851, 4910, 4969, 5029, 5089, 5149, 5210,
      5271, 5333, 5395, 5457, 5520, 5583, 5647, 5711, 5776, 5841, 5906, 5972,
      6038, 6105, 6172, 6240, 6308, 6376, 6445, 6514, 6584, 6654, 6724, 6795,
      6867, 6939, 7011, 7084, 7157, 7231, 7305, 7379, 7454, 7529, 7605, 7682,
      7758, 7835, 7913, 7991, 8070, 8148, 8228, 8308, 8388, 8469, 8550, 8632,
      8714, 8796, 8879, 8963, 9047, 9131, 9216, 9301, 9387, 9473, 9560, 9647,
      9734, 9823, 9911, 10000
    >>

ToLinear(c) == SrgbU8ToLinear[c + 1]

\* srgb_to_linear_vec4: linear r, g, b and alpha 1.0
srgb_to_linear_vec4_no_alpha(r, g, b) == <<ToLinear(r), ToLinear(g), ToLinear(b), 0>>

srgb_to_linear_vec4(r, g, b) == <<ToLinear(r), ToLinear(g), ToLinear(b), One>>

\* The assignments of default_pixel_art_palette, in the order of the source:
\* colors[slot] = srgb_to_linear_vec4(r, g, b).
PaletteSource ==
    <<
      <<0, 0, 0, 0>>, <<1, 29, 43, 83>>, <<2, 126, 37, 83>>, <<3, 0, 135, 81>>,
      <<4, 171, 82, 54>>, <<5, 95, 87, 79>>, <<6, 194, 195, 199>>, <<7, 255, 241, 232>>,
      <<8, 255, 0, 77>>, <<9, 255, 163, 0>>, <<10, 255, 236, 39>>, <<11, 0, 228, 54>>,
      <<12, 41, 173, 255>>, <<13, 131, 118, 156>>, <<14, 255, 119, 168>>, <<15, 255, 204, 170>>,
      <<16, 41, 24, 20>>, <<17, 17, 29, 53>>, <<18, 66, 33, 54>>, <<19, 18, 83, 89>>,
      <<20, 116, 47, 41>>, <<21, 73, 51, 59>>, <<22, 162, 136, 121>>, <<23, 243, 239, 125>>,
      <<24, 190, 18, 80>>, <<25, 255, 108, 36>>, <<26, 168, 231, 46>>, <<27, 0, 181, 67>>,
      <<28, 6, 90, 181>>, <<29, 117, 70, 101>>, <<30, 255, 110, 89>>, <<31, 255, 157, 129>>,
      <<32, 34, 32, 52>>, <<33, 69, 40, 60>>, <<34, 102, 57, 49>>, <<35, 143, 86, 59>>,
      <<36, 223, 113, 38>>, <<37, 217, 160, 102>>, <<38, 238, 195, 154>>, <<39, 251, 242, 54>>,
      <<40, 153, 229, 80>>, <<41, 106, 190, 48>>, <<42, 55, 148, 110>>, <<43, 75, 105, 47>>,
      <<44, 82, 75, 36>>, <<45, 50, 60, 57>>, <<46, 63, 63, 116>>, <<47, 48, 96, 130>>,
      <<48, 91, 110, 225>>, <<49, 99, 155, 255>>, <<50, 95, 205, 228>>, <<51, 203, 219, 252>>,
      <<52, 155, 173, 183>>, <<53, 132, 126, 135>>, <<54, 105, 106, 106>>, <<55, 89, 86, 82>>,
      <<56, 118, 66, 138>>, <<57, 172, 50, 50>>, <<58, 217, 87, 99>>, <<59, 215, 123, 186>>,
      <<60, 143, 151, 74>>, <<61, 138, 111, 48>>, <<62, 75, 47, 55>>, <<63, 45, 45, 45>>
    >>

\* let mut colors = [Vec4::ZERO; 64]
ZeroPalette == [i \in 1..PaletteCapacity |-> Vec4Zero]

\* colors after the first n assignments; slot k of the source is entry k + 1.
RECURSIVE AssignColors(_, _)
AssignColors(colors, n) ==
    IF n = 0
    THEN colors
    ELSE LET a == PaletteSource[n]
         IN  [AssignColors(colors, n - 1) EXCEPT
                 ![a[1] + 1] = srgb_to_linear_vec4(a[2], a[3], a[4])]

\* default_pixel_art_palette() -> (colors, 64)
default_pixel_art_palette ==
    [colors |-> AssignColors(ZeroPalette, Len(PaletteSource)),
     count |-> DefaultPaletteCount]

\* The debug stage selector of the demo: STAGE_LABELS has five entries.
StageLabels == 5

\* impl Default for PixelArtShaderParams (f32 in hundredths)
DefaultParams ==
    [base_tint |-> <<100, 100, 100, 100>>,
     toon_bands |-> 1000,
     toon_softness |-> 0,
     toon_shadow_floor |-> 10,
     dither_density |-> 100,
     palette_count |-> default_pixel_art_palette.count,
     palette_strength |-> 25,
     dither_strength |-> 30,
     debug_stage |-> 0,
     palette_colors |-> default_pixel_art_palette.colors]

paramsRest == <<mainVars, depthSamplingSupported, componentVars, resourceVars,
                scheduleVars, runLog, atExtract, gpuPass, stageVars, hostVars>>

\* PixelArtShaderParams::default()
NewDefault ==
    /\ params' = DefaultParams
    /\ paramsOrigin' = "default"
    /\ UNCHANGED paramsRest

\* PixelArtShaderParams { palette_count, ..default() }: every field is pub,
\* the literal takes any u32.
NewLiteral(count) ==
    /\ params' = [DefaultParams EXCEPT !.palette_count = count]
    /\ paramsOrigin' = "literal"
    /\ UNCHANGED paramsRest

\* mat.extension.params.palette_count = count, by any caller
WritePaletteCount(count) ==
    /\ params # NoComp
    /\ params' = [params EXCEPT !.palette_count = count]
    /\ paramsOrigin' = "written"
    /\ UNCHANGED paramsRest

\* debug_ui: the "Palette Colors" slider is bounded by 0..=64
SliderPaletteCount(count) ==
    /\ params # NoComp
    /\ count \in 0..PaletteCapacity
    /\ count # params.palette_count
    /\ params' = [params EXCEPT !.palette_count = count]
    /\ paramsOrigin' = "written"
    /\ UNCHANGED paramsRest

\* debug_ui: the stage radio buttons
SelectStage(stage) ==
    /\ params # NoComp
    /\ stage # params.debug_stage
    /\ params' = [params EXCEPT !.debug_stage = stage]
    /\ paramsOrigin' = "written"
    /\ UNCHANGED paramsRest

\* ------------------------------------------------------------------------
\* The uniform buffer of PixelArtShaderParams (#[derive(ShaderType)])
\* ------------------------------------------------------------------------

RoundUp(k, n) == ((n + k - 1) \div k) * k

\* Host-shareable types: size and alignment in bytes.
F32 == [size |-> 4, align |-> 4]

U32 == [size |-> 4, align |-> 4]

Vec4 == [size |-> 16, align |-> 16]

\* [T; n] in a uniform buffer: n elements, each on the element's alignment.
ArrayOf(elem, n) ==
    [size |-> n * RoundUp(elem.align, elem.size), align |-> elem.align]

\* The fields of the struct, in declaration order.
PixelArtShaderParamsFieldsReordered ==
    <<[name |-> "base_tint", type |-> Vec4],
      [name |-> "palette_count", type |-> U32],
      [name |-> "toon_bands", type |-> F32],
      [name |-> "toon_softness", type |-> F32],
      [name |-> "toon_shadow_floor", type |-> F32],
      [name |-> "dither_density", type |-> F32],
      [name |-> "palette_strength", type |-> F32],
      [name |-> "dither_strength", type |-> F32],
      [name |-> "palette_colors", type |-> ArrayOf(Vec4, PaletteCapacity)],
      [name |-> "debug_stage", type |-> U32]>>

PixelArtShaderParamsFields ==
    <<[name |-> "base_tint", type |-> Vec4],
      [name |-> "toon_bands", type |-> F32],
      [name |-> "toon_softness", type |-> F32],
      [name |-> "toon_shadow_floor", type |-> F32],
      [name |-> "dither_density", type |-> F32],
      [name |-> "palette_count", type |-> U32],
      [name |-> "palette_strength", type |-> F32],
      [name |-> "dither_strength", type |-> F32],
      [name |-> "debug_stage", type |-> U32],
      [name |-> "palette_colors", type |-> ArrayOf(Vec4, PaletteCapacity)]>>

\* The byte offset of field i: the end of field i - 1 rounded up to the
\* alignment of field i.
RECURSIVE FieldOffset(_, _)
FieldOffset(fields, i) ==
    IF i = 1
    THEN 0
    ELSE RoundUp(fields[i].type.align,
                 FieldOffset(fields, i - 1) + fields[i - 1].type.size)

RECURSIVE MaxAlign(_, _)
MaxAlign(fields, i) ==
    IF i = 0
    THEN 1
    ELSE LET rest == MaxAlign(fields, i - 1)
         IN  IF fields[i].type.align > rest THEN fields[i].type.align ELSE rest

\* The size of the struct: the end of the last field rounded up to the
\* struct's alignment.
StructSize(fields) ==
    RoundUp(MaxAlign(fields, Len(fields)),
            FieldOffset(fields, Len(fields)) + fields[Len(fields)].type.size)

\* The buffer written for a value: every field at its offset.
WriteInto(fields, value) ==
    [entries |-> [i \in 1..Len(fields) |->
                     [name |-> fields[i].name,
                      offset |-> FieldOffset(fields, i),
                      size |-> fields[i].type.size,
                      value |-> value[fields[i].name]]],
     size |-> StructSize(fields)]

\* #[uniform(100)] params: the material's bind group is prepared from the
\* current value.
WriteUniformBuffer ==
    /\ params # NoComp
    /\ paramsBuffer # WriteInto(PixelArtShaderParamsFields, params)
    /\ paramsBuffer' = WriteInto(PixelArtShaderParamsFields, params)
    /\ UNCHANGED <<mainVars, depthSamplingSupported, componentVars,
                   resourceVars, scheduleVars, runLog, atExtract, gpuPass,
                   params, paramsOrigin, shaded, lowResScene, hostVars>>

NextParams ==
    \/ NewDefault
    \/ \E count \in PaletteCountInputs : NewLiteral(count)
    \/ \E count \in PaletteCountInputs : WritePaletteCount(count)
    \/ \E count \in PaletteCountInputs : SliderPaletteCount(count)
    \/ \E stage \in 0..(StageLabels - 1) : SelectStage(stage)

InitParams ==
    /\ WorldsInit
    /\ depthSamplingSupported = TRUE
    /\ NoShading

SpecParams == InitParams /\ [][NextParams]_vars

\* Records built by default() or by a literal, and the buffer written from
\* them.
NextLayout ==
    \/ NewDefault
    \/ \E count \in PaletteCountInputs : NewLiteral(count)
    \/ WriteUniformBuffer

SpecLayout == InitParams /\ [][NextLayout]_vars

\* ------------------------------------------------------------------------
\* Properties
\* ------------------------------------------------------------------------

Ran(v) == runLog[v] # NoComp

Drew(v) == Ran(v) /\ runLog[v].outcome = "draw"

NoPassNoDraw(v) ==
    /\ runLog[v].result = "Ok"
    /\ runLog[v].passes = 0
    /\ runLog[v].draws = 0
    /\ "bind_group" \notin DOMAIN runLog[v]

\* C1: every output pixel of the composite is the low-res colour when the
\* low-res depth, adjusted by depth_bias, is at or in front of the full-res
\* depth and the low-res alpha is non-zero, and the full-res colour
\* otherwise; with low-res alpha 0 everywhere the output is the full-res
\* input.
C1_PerPixelRule ==
    (gpuPass # NoComp /\ gpuPass.out # NoComp) =>
        /\ \A p \in 1..FullWidth :
              LET q == NearestTexel(p)
                  bias == gpuPass.uniforms[gpuPass.offset].depth_bias
              IN  gpuPass.out[p] =
                     IF /\ gpuPass.lowres_depth[q] - bias <= gpuPass.fullres_depth[p]
                        /\ gpuPass.lowres_color[q].a # 0
                     THEN LowColor(q)
                     ELSE FullColor(p)
        /\ (\A q \in 1..LowWidth : gpuPass.lowres_color[q].a = 0)
              => gpuPass.out = gpuPass.fullres_color

\* A pass whose output holds a low-res pixel, a pixel kept full-res because
\* the low-res alpha is 0 although the low-res surface is in front, and a
\* pixel kept full-res because the visible low-res surface is behind.
C1_Witness ==
    /\ gpuPass # NoComp
    /\ gpuPass.out # NoComp
    /\ \E p1, p2, p3 \in 1..FullWidth :
          /\ gpuPass.out[p1] = LowColor(NearestTexel(p1))
          /\ gpuPass.lowres_color[NearestTexel(p1)].a = 50
          /\ gpuPass.lowres_color[NearestTexel(p2)].a = 0
          /\ gpuPass.lowres_depth[NearestTexel(p2)] < gpuPass.fullres_depth[p2]
          /\ gpuPass.out[p2] = FullColor(p2)
          /\ gpuPass.lowres_color[NearestTexel(p3)].a # 0
          /\ gpuPass.out[p3] = FullColor(p3)

\* The four resource-not-ready conditions of a view in the current frame.
FullResDepthMissing(v) ==
    viewPrepassTextures[v] # NoComp /\ ~viewPrepassTextures[v].depth

NoLowResCamera == LowResQuery = {}

LowResImageMissing(v) ==
    /\ extractedCompositor[v] # NoComp
    /\ extractedCompositor[v].lowres_image \notin gpuImages

UniformBindingMissing == ~componentUniforms.bound

\* C2: when the full-res depth texture, the low-res camera, the low-res
\* colour image or the uniform binding is missing, run returns Ok and
\* encodes no render pass and no draw call for the view.
C2_NotReadySkips ==
    \A v \in Entities :
        (/\ Ran(v)
         /\ \/ FullResDepthMissing(v)
            \/ NoLowResCamera
            \/ LowResImageMissing(v)
            \/ UniformBindingMissing)
        => NoPassNoDraw(v)

\* run reached its last guard, with only the uniform binding missing.
C2_Witness ==
    /\ Ran("camA")
    /\ runLog["camA"].outcome = "no_uniform_binding"
    /\ UniformBindingMissing
    /\ ~FullResDepthMissing("camA")
    /\ ~NoLowResCamera
    /\ ~LowResImageMissing("camA")

\* C3: when depth textures cannot be sampled, no frame inserts
\* ExtractedCompositor or the low-res marker, no pipeline is resolved, and
\* run leaves at its first guard: no bind group, no pass, no draw.
C3_UnsupportedPlatformIdle ==
    ~depthSamplingSupported =>
        /\ specializedPipelines = [h \in BOOLEAN |-> 0]
        /\ pipelineCache = <<>>
        /\ \A e \in Entities :
              /\ extractedCompositor[e] = NoComp
              /\ ~renderLowRes[e]
              /\ compositorPipelineId[e] = 0
              /\ Ran(e) => (runLog[e].outcome = "no_view" /\ NoPassNoDraw(e))

\* A frame ran on such a platform with the compositor and the low-res
\* camera configured before its extraction.
C3_Witness ==
    /\ ~depthSamplingSupported
    /\ Ran("camA")
    /\ atExtract["camA"] # NoComp
    /\ lowResPixelArtCamera["camB"]
    /\ depthPrepass["camB"]
    /\ \A i \in Images : i \in gpuImages

\* C4: the phases of a frame run in the order extraction, preparation,
\* composite; what preparation and the draw of a frame use is the
\* depth_bias and the image handle PixelArtCompositor held at that frame's
\* extraction, whatever the main world writes afterwards.
C4_FrameUsesSnapshot ==
    /\ (\E v \in Entities : Ran(v)) => pc = "render"
    /\ \A v \in Entities :
          (pc \in {"prepare", "render"} /\ atExtract[v] # NoComp) =>
              /\ compositorUniform[v] = [depth_bias |-> atExtract[v].depth_bias]
              /\ depthSamplingSupported =>
                    extractedCompositor[v] =
                        [lowres_image |-> atExtract[v].lowres_image]
              /\ Drew(v) =>
                    /\ runLog[v].bind_group[6].buffer[runLog[v].offset]
                          = atExtract[v].depth_bias
                    /\ runLog[v].bind_group[3].handle = atExtract[v].lowres_image

\* A frame drew although the main world had changed both fields after the
\* extraction.
C4_Witness ==
    /\ Drew("camA")
    /\ atExtract["camA"] # NoComp
    /\ pixelArtCompositor["camA"] # NoComp
    /\ pixelArtCompositor["camA"].depth_bias # atExtract["camA"].depth_bias
    /\ pixelArtCompositor["camA"].lowres_image # atExtract["camA"].lowres_image

\* C5: in every view's graph the compositor runs after the base 3-D pass
\* and before Fxaa, in every order the edges allow.
C5_CompositorBetween ==
    /\ "Compositor" \in nodesDone => "MainPass" \in nodesDone
    /\ "Fxaa" \in nodesDone => "Compositor" \in nodesDone

\* The compositor drew after tonemapping, with Fxaa still to run.
C5_Witness ==
    /\ nodesDone = {"MainPass", "PostProcessing", "Tonemapping", "Compositor"}
    /\ Drew("camA")

\* C6: the pipeline a view's composite draws with was specialized for the
\* view's HDR setting of the same frame: the HDR format iff the view is HDR.
C6_PipelineMatchesHdr ==
    \A v \in Entities :
        Drew(v) =>
            /\ viewTarget[v].hdr = extractedView[v].hdr
            /\ pipelineCache[runLog[v].pipeline].format =
                  IF extractedView[v].hdr
                  THEN TEXTURE_FORMAT_HDR
                  ELSE BevyDefaultFormat

\* The view drew as HDR with a pipeline resolved after the SDR one.
C6_Witness ==
    /\ Drew("camA")
    /\ extractedView["camA"].hdr
    /\ specializedPipelines[FALSE] = 1
    /\ runLog["camA"].pipeline = 2

\* C7: every camera marked LowResPixelArtCamera has the depth prepass.
C7_LowResCameraHasDepthPrepass ==
    \A e \in Entities : lowResPixelArtCamera[e] => depthPrepass[e]

\* C8: attaching PixelArtCompositor leaves DepthPrepass on the same entity.
C8_CompositorHasDepthPrepass ==
    \A e \in Entities : pixelArtCompositor[e] # NoComp => depthPrepass[e]

\* Both cameras carry a compositor, one of them marked low-res as well.
C8_Witness ==
    /\ \A e \in Entities : pixelArtCompositor[e] # NoComp
    /\ lowResPixelArtCamera["camB"]
    /\ depthPrepass["camB"]

\* C9: palette_count of every PixelArtShaderParams is within 0..=64.
C9_PaletteCountWithinCapacity ==
    params # NoComp => params.palette_count \in 0..PaletteCapacity

\* C10: default() has toon bands 3, softness 0, shadow floor in 0.1..0.2.
C10_DefaultToon ==
    paramsOrigin = "default" =>
        /\ params.toon_bands = 300
        /\ params.toon_softness = 0
        /\ params.toon_shadow_floor \in 10..20

\* ------------------------------------------------------------------------
\* The pixel-art fragment stage and its debug-stage selector
\* ------------------------------------------------------------------------

\* Brightness of the surface a fragment belongs to: 0 .. MaxTone.
MaxTone == 3

Tones == 0..MaxTone

\* A step of the stage takes a colour and yields the colour with the step
\* applied; the colour keeps the steps it went through.
ApplyStep(color, step) == [color EXCEPT !.steps = Append(@, step)]

\* The fragment stage: after each step, the selector may end the stage
\* with the colour reached so far.  Alpha is forced to 1.0.
pixel_art_fragment_late_return(p, tone) ==
    LET input == [tint |-> p.base_tint, tone |-> tone, steps |-> <<>>, a |-> 100]
        lit == ApplyStep(input, "lighting")
        toon == ApplyStep(lit, "toon")
        quantized == ApplyStep(toon, "palette")
        dithered == ApplyStep(quantized, "dither")
    IN  IF p.debug_stage = 1 THEN lit
        ELSE IF p.debug_stage = 2 THEN toon
        ELSE dithered

pixel_art_fragment(p, tone) ==
    LET input == [tint |-> p.base_tint, tone |-> tone, steps |-> <<>>, a |-> 100]
        lit == ApplyStep(input, "lighting")
        toon == ApplyStep(lit, "toon")
        quantized == ApplyStep(toon, "palette")
        dithered == ApplyStep(quantized, "dither")
    IN  IF p.debug_stage = 1 THEN lit
        ELSE IF p.debug_stage = 2 THEN toon
        ELSE IF p.debug_stage = 3 THEN quantized
        ELSE dithered

\* A fragment of a material with the current parameters is shaded.
ShadeFragment(tone) ==
    /\ params # NoComp
    /\ shaded' = [stage |-> params.debug_stage, tone |-> tone,
                  color |-> pixel_art_fragment(params, tone)]
    /\ UNCHANGED <<mainVars, depthSamplingSupported, componentVars,
                   resourceVars, scheduleVars, runLog, atExtract, gpuPass,
                   params, paramsOrigin, paramsBuffer, lowResScene, hostVars>>

NextShade ==
    \/ NewDefault
    \/ \E stage \in 0..(StageLabels - 1) : SelectStage(stage)
    \/ \E tone \in Tones : ShadeFragment(tone)

SpecShade == InitParams /\ [][NextShade]_vars

\* ------------------------------------------------------------------------
\* The demo's camera sync
\* ------------------------------------------------------------------------

\* Camera poses the orbit controls can reach: 0 .. MaxPose.
MaxPose == 3

Poses == 0..MaxPose

\* The systems of a frame that touch the camera transforms.  main() adds
\* sync_pixel_art_camera to Update with no ordering against the system of
\* PanOrbitCameraPlugin, which the plugin schedules itself.
FrameSystems == {"pan_orbit_camera", "sync_pixel_art_camera"}

demoRest == <<mainVars, depthSamplingSupported, componentVars, resourceVars,
              scheduleVars, runLog, atExtract, gpuPass, params, paramsOrigin,
              stageVars, app>>

\* The input processing of the frame: the orbit controls move the window
\* camera, or leave it where it is.
pan_orbit_camera(pose) ==
    /\ "pan_orbit_camera" \in mainPc
    /\ windowTransform' = pose
    /\ transformChanged' = (transformChanged \/ pose # windowTransform)
    /\ mainPc' = mainPc \ {"pan_orbit_camera"}
    /\ UNCHANGED <<pixelArtTransform, rendered, demoRest>>

\* sync_pixel_art_camera: copies the window camera's Transform when it
\* changed since the system last ran.
sync_pixel_art_camera ==
    /\ "sync_pixel_art_camera" \in mainPc
    /\ pixelArtTransform' =
          IF transformChanged THEN windowTransform ELSE pixelArtTransform
    /\ transformChanged' = FALSE
    /\ mainPc' = mainPc \ {"sync_pixel_art_camera"}
    /\ UNCHANGED <<windowTransform, rendered, demoRest>>

\* Both cameras are extracted and rendered once the frame's systems ran.
RenderCameras ==
    /\ mainPc = {}
    /\ rendered' = [window |-> windowTransform, pixel_art |-> pixelArtTransform]
    /\ mainPc' = FrameSystems
    /\ UNCHANGED <<windowTransform, pixelArtTransform, transformChanged, demoRest>>

NextSync ==
    \/ \E pose \in Poses : pan_orbit_camera(pose)
    \/ sync_pixel_art_camera
    \/ RenderCameras

SpecSync == InitParams /\ [][NextSync]_vars

\* The contractual layout: name, byte offset and width of every field.
ContractLayout ==
    <<<<"base_tint", 0, 16>>, <<"toon_bands", 16, 4>>, <<"toon_softness", 20, 4>>,
      <<"toon_shadow_floor", 24, 4>>, <<"dither_density", 28, 4>>,
      <<"palette_count", 32, 4>>, <<"palette_strength", 36, 4>>,
      <<"dither_strength", 40, 4>>, <<"debug_stage", 44, 4>>,
      <<"palette_colors", 48, 1024>>>>

\* C11: the uniform buffer holds the fields in the contractual order and
\* widths, each right after the one before it (no padding), the palette
\* array at byte 48, 1072 bytes in all, and each field holds the value of
\* the record it was written from.
C11_ContractLayout ==
    paramsBuffer # NoComp =>
        /\ Len(paramsBuffer.entries) = Len(ContractLayout)
        /\ \A i \in 1..Len(ContractLayout) :
              LET entry == paramsBuffer.entries[i]
              IN  /\ <<entry.name, entry.offset, entry.size>> = ContractLayout[i]
                  /\ i > 1 => entry.offset = paramsBuffer.entries[i - 1].offset
                                             + paramsBuffer.entries[i - 1].size
        /\ paramsBuffer.entries[10].offset % 16 = 0
        /\ paramsBuffer.size = 48 + 64 * 16
        /\ paramsBuffer.size = 1072

\* A record with a palette count and a debug stage of its own was written.
C11_Witness ==
    /\ paramsBuffer # NoComp
    /\ paramsBuffer.entries[6].value = 3
    /\ paramsBuffer.entries[2].value = 1000
    /\ paramsBuffer.entries[10].value = default_pixel_art_palette.colors

\* C13: every palette entry below the active count returned by the builder
\* was assigned from an sRGB triple of the source and has alpha 1.0; none is
\* left at Vec4::ZERO.
C13_ActiveEntriesAssigned ==
    paramsOrigin = "default" =>
        /\ params.palette_count <= Len(params.palette_colors)
        /\ \A i \in 1..params.palette_count :
              /\ params.palette_colors[i][4] = One
              /\ params.palette_colors[i] # Vec4Zero
              /\ \E n \in 1..Len(PaletteSource) :
                    /\ PaletteSource[n][1] = i - 1
                    /\ \A c \in 1..3 :
                          params.palette_colors[i][c] = ToLinear(PaletteSource[n][c + 1])

\* default() was called and carries all 64 entries, the last of them the
\* charcoal of the source.
C13_Witness ==
    /\ paramsOrigin = "default"
    /\ params.palette_count = 64
    /\ params.palette_colors[64] = <<ToLinear(45), ToLinear(45), ToLinear(45), One>>
    /\ params.palette_colors[1] = <<0, 0, 0, One>>

\* C14: every frame is rendered with the pixel-art camera's transform equal
\* to the window camera's transform as the frame's input processing left it.
C14_CamerasInLockStep ==
    rendered # NoComp => rendered.pixel_art = rendered.window

\* C15: where the low-res camera keeps a holdout surface, the main and the
\* prepass fragment outputs have alpha 0 and the surface's depth is in the
\* depth texture; the composite shows the full-res colour there, and shows
\* the low-res colour only where a pixel-art surface was kept, so pixel-art
\* geometry behind a holdout is hidden and geometry in front of it is not.
C15_HoldoutOnlyOccludes ==
    (lowResScene # NoComp /\ gpuPass # NoComp) =>
        \A q \in 1..LowWidth :
            LET S == lowResScene.surfaces[q]
                holdout == {s \in S : s.material = "holdout"}
                pixel_art == {s \in S : s.material = "pixel_art"}
            IN  /\ lowResScene.front[q] = "holdout" =>
                      /\ gpuPass.lowres_color[q].a = 0
                      /\ lowResScene.prepass_alpha[q] = 0
                      /\ \E s \in holdout : gpuPass.lowres_depth[q] = s.depth
                /\ (\E h \in holdout, s \in pixel_art : s.depth < h.depth)
                      => lowResScene.front[q] = "pixel_art"
                /\ (\E h \in holdout, s \in pixel_art : h.depth < s.depth)
                      => lowResScene.front[q] = "holdout"
                /\ gpuPass.out # NoComp =>
                      \A p \in 1..FullWidth :
                          NearestTexel(p) = q =>
                              /\ lowResScene.front[q] = "holdout"
                                    => gpuPass.out[p] = FullColor(p)
                              /\ gpuPass.out[p] = LowColor(q)
                                    => lowResScene.front[q] = "pixel_art"

\* A composite of a layer where one texel keeps a holdout in front of a
\* pixel-art surface and of the full-res wall, and another texel shows its
\* pixel-art surface.
C15_Witness ==
    /\ lowResScene # NoComp
    /\ gpuPass # NoComp
    /\ gpuPass.out # NoComp
    /\ lowResScene.surfaces[1] = {[material |-> "holdout", depth |-> 0],
                                  [material |-> "pixel_art", depth |-> 1]}
    /\ gpuPass.fullres_depth[1] = 1
    /\ gpuPass.out[1] = FullColor(1)
    /\ lowResScene.front[2] = "pixel_art"
    /\ gpuPass.out[2] = LowColor(2)

\* The steps of the pixel-art stage, in order.
StepOrder == <<"lighting", "toon", "palette", "dither">>

\* C16: with debug stage k in 1..4 the fragment's colour went through
\* exactly the first k steps, in order, and through no later one; with
\* debug stage 0 it went through all four.
C16_DebugStagePrefix ==
    shaded # NoComp =>
        /\ shaded.stage \in 0..4
        /\ shaded.color.steps =
              SubSeq(StepOrder, 1, IF shaded.stage = 0 THEN 4 ELSE shaded.stage)

\* A fragment was shaded with the selector at 3: lighting, toon and palette
\* applied, no dithering.
C16_Witness ==
    /\ shaded # NoComp
    /\ shaded.stage = 3
    /\ shaded.color.steps = <<"lighting", "toon", "palette">>
    /\ params.debug_stage = 3

\* Everything run needs from frame f, present in frame f.
AllPresent(v) ==
    /\ viewTarget[v] # NoComp
    /\ viewPrepassTextures[v] # NoComp
    /\ extractedCompositor[v] # NoComp
    /\ compositorPipelineId[v] # 0
    /\ dynamicUniformIndex[v] # 0
    /\ compositorPipelineId[v] \in 1..Len(pipelineCache)
    /\ pipelineCache[compositorPipelineId[v]].ready
    /\ viewPrepassTextures[v].depth
    /\ \E l \in Entities :
          /\ renderLowRes[l]
          /\ viewPrepassTextures[l] # NoComp
          /\ viewPrepassTextures[l].depth
    /\ extractedCompositor[v].lowres_image \in gpuImages
    /\ componentUniforms.bound

C18_SwapOnlyOnDraw ==
    \A v \in Entities :
        Ran(v) =>
            IF Drew(v)
            THEN /\ viewTarget[v].main = 1
                 /\ runLog[v].bind_group[1].main = 0
                 /\ runLog[v].attachment.main = 1
            ELSE viewTarget[v].main = 0

\* run got past the view query and the pipeline and skipped at a later
\* guard, the target untouched.
C18_Witness ==
    /\ Ran("camA")
    /\ runLog["camA"].outcome
          \in {"no_fullres_depth", "no_lowres_camera", "no_lowres_depth",
               "no_lowres_image", "no_uniform_binding"}
    /\ viewTarget["camA"].main = 0

\* C19: the low-res depth and the low-res colour image of a composite
\* belong to the same low-res camera.
C19_DepthAndColorOfOneCamera ==
    \A v \in Entities :
        Drew(v) =>
            RenderTargetImage[runLog[v].bind_group[4].view]
                = runLog[v].bind_group[3].handle

\* C20: a render-world view carries ExtractedCompositor in a frame only if
\* its camera carried PixelArtCompositor at that frame's extraction.
C20_ExtractedOnlyIfAttached ==
    pc \in {"prepare", "render"} =>
        \A e \in Entities :
            extractedCompositor[e] # NoComp => atExtract[e] # NoComp

\* C21: with several compositor-enabled cameras, the dynamic offset of a
\* view's draw is the view's own uniform index, no other view's, and the
\* uniform found there holds the depth_bias of the view's own
\* PixelArtCompositor.
C21_OwnUniformOffset ==
    \A v \in Entities :
        Drew(v) =>
            /\ runLog[v].offset = dynamicUniformIndex[v]
            /\ \A w \in Entities \ {v} :
                  dynamicUniformIndex[w] # 0 =>
                      runLog[v].offset # dynamicUniformIndex[w]
            /\ atExtract[v] # NoComp =>
                  runLog[v].bind_group[6].buffer[runLog[v].offset]
                      = atExtract[v].depth_bias

\* Both cameras were composited in one frame, each with a depth_bias of its
\* own.
C21_Witness ==
    /\ Drew("camA")
    /\ Drew("camB")
    /\ atExtract["camA"] # NoComp
    /\ atExtract["camB"] # NoComp
    /\ atExtract["camA"].depth_bias # atExtract["camB"].depth_bias
    /\ runLog["camA"].offset # runLog["camB"].offset

\* C22: in an application without a render sub-app, build followed by
\* finish ends without a fatal error and registers nothing on the render
\* side.
C22_InstallsWithoutRenderApp ==
    ~app.render_app =>
        /\ app.phase # "panicked"
        /\ app.render = {}

\* C23: the bind group run builds for a view has one resource per slot of
\* the declared layout, and the resource at every slot 0..5 is of the kind
\* the layout declares there: full-res color, full-res depth, low-res
\* color, low-res depth, nearest sampler, depth_bias uniform.
C23_BindGroupMatchesLayout ==
    \A v \in Entities :
        Drew(v) =>
            /\ Len(runLog[v].bind_group) = Len(BindGroupLayoutEntries)
            /\ Len(BindGroupLayoutEntries) = 6
            /\ \A i \in 1..Len(BindGroupLayoutEntries) :
                  IntoBinding(v, runLog[v].bind_group[i]) = BindGroupLayoutEntries[i]

C23_Witness ==
    /\ Drew("camA")
    /\ IntoBinding("camA", runLog["camA"].bind_group[2]).role = "fullres depth"
    /\ IntoBinding("camA", runLog["camA"].bind_group[4]).role = "lowres depth"

=============================================================================
